---------------------------- MODULE Spec2Model ----------------------------
(***************************************************************************)
(* A model of the fedibot-gpt mention pipeline (src/unnamed/part_000):     *)
(* thread resolution (buildConversationStack, trimStackToMaxChar),         *)
(* transcript assembly (buildChatHistory, getBase64Image), the completion  *)
(* call (callGPT) and reply dispatch (replyToStatus).                      *)
(*                                                                         *)
(* Strings are sequences of one-character strings, so that Go's len(s),    *)
(* s[:n], s[n:] and concatenation are Len, SubSeq and \o.  The empty Go    *)
(* string "" is the empty sequence << >>.  Status ids are naturals and the *)
(* empty id "" is 0.                                                       *)
(***************************************************************************)
EXTENDS Integers, Sequences, FiniteSets, TLC

(***************************************************************************)
(* Bounds of the model.                                                    *)
(***************************************************************************)
\* config.MaxChar ranges over 1..MaxCharBound
MaxCharBound == 5
\* a completion text has at most MaxRespLen characters
MaxRespLen == 4
\* at most MaxPosts create-reply calls are followed for one mention
MaxPosts == 4
\* a thread has at most MaxThread statuses (the leaf and its ancestors)
MaxThread == 3
\* a status's Content has at most MaxContentLen characters
MaxContentLen == 2
\* config.MaxHistoryCount ranges over 1..MaxCountBound
MaxCountBound == 3
\* config.MaxHistoryChar ranges over 0..MaxHistoryCharBound
MaxHistoryCharBound == 3
\* the statuses of a history carry at most MaxMedia attachments in all
MaxMedia == 2

\* notifications that reach the server
MaxNotifs == 2

\* calls of processNotifications by main
MaxCycles == 2

VARIABLES
    config,       \* Config: MaxChar, MaxHistoryCount, MaxHistoryChar
    web,          \* what an HTTP GET of each attachment URL returns
    store,        \* the status store: store[id] is the status with that id
    notif,        \* notif.Status, the status of the mention being processed
    pc,           \* position of processNotification
    fetches,      \* outcomes of the StatusGet calls of buildConversationStack
    stack,        \* result of buildConversationStack
    chatHistory,  \* result of buildChatHistory
    gpt,          \* what the completion service answered
    response,     \* result of callGPT
    cur,          \* the status argument of the current replyToStatus call
    text,         \* the response argument of the current replyToStatus call
    calls,        \* the StatusCreate calls made so far, in order
    poll          \* the poll loop: notification source and processNotifications

vars == <<config, web, store, notif, pc, fetches, stack, chatHistory, gpt,
          response, cur, text, calls, poll>>

(***************************************************************************)
(* Strings.                                                                *)
(***************************************************************************)
Chars(n, c) == [i \in 1..n |-> c]

\* all strings over alphabet A with length in lo..hi
Strings(A, lo, hi) == UNION {[1..n -> A] : n \in lo..hi}

Take(s, n) == SubSeq(s, 1, IF n < Len(s) THEN n ELSE Len(s))

Drop(s, n) == SubSeq(s, n + 1, Len(s))

RECURSIVE Concat(_)
Concat(ss) == IF ss = << >> THEN << >> ELSE Head(ss) \o Concat(Tail(ss))

HasPrefix(s, p) == Len(s) >= Len(p) /\ SubSeq(s, 1, Len(p)) = p

TrimPrefix(s, p) == IF HasPrefix(s, p) THEN Drop(s, Len(p)) ELSE s

(***************************************************************************)
(* Statuses (models.Status, the fields the pipeline reads).                *)
(***************************************************************************)
NoID == 0

Visibilities == {"public", "unlisted", "private", "mutuals_only", "direct"}

\* account handle of the bot as the status store reports it: the author of
\* every status the bot creates
BotAcct == <<"b">>

\* handles of the accounts that mention the bot
Authors == {<<"u">>, <<"u", "s">>}

MkStatus(id, parent, acct, txt, content, vis, spoiler, media) ==
    [ID |-> id, InReplyToID |-> parent, Acct |-> acct, Text |-> txt,
     Content |-> content, Visibility |-> vis, SpoilerText |-> spoiler,
     MediaAttachments |-> media]

NoStatus == MkStatus(NoID, NoID, << >>, << >>, << >>, "", << >>, << >>)

(***************************************************************************)
(* replyToStatus.                                                          *)
(***************************************************************************)
\* mentionAcct := fmt.Sprintf("@%s", status.Account.Acct)
mentionAcct(status) == <<"@">> \o status.Acct

\* fullResponse := fmt.Sprintf("%s %s", mentionAcct, response)
fullResponse(status, resp) == mentionAcct(status) \o <<" ">> \o resp

\* a dispatcher that posts the composed text uncut
SegmentNoLimit(full) == full

\* the body posted by one call: fullResponse[:config.MaxChar] when too long
Segment(full) ==
    IF Len(full) > config.MaxChar THEN SubSeq(full, 1, config.MaxChar) ELSE full

\* remaining = fullResponse[config.MaxChar:] when too long, else ""
remaining(full) ==
    IF Len(full) > config.MaxChar THEN SubSeq(full, config.MaxChar + 1, Len(full))
    ELSE << >>

\* a transform without the private / mutuals_only override
VisibilityPrivateKept(status) ==
    IF status.Visibility = "public" THEN "unlisted" ELSE status.Visibility

\* WithVisibility(status.Visibility), then the two SetVisibility overrides
ReplyVisibility(status) ==
    IF status.Visibility \in {"private", "mutuals_only"} THEN "direct"
    ELSE IF status.Visibility = "public" THEN "unlisted"
    ELSE status.Visibility

RePrefix == <<"r", "e", ":", " ">>

\* params.SpoilerText = ptr("re: " + status.SpoilerText), left nil when empty
ReplySpoiler(status) ==
    IF status.SpoilerText # << >> THEN RePrefix \o status.SpoilerText ELSE << >>

\* params without WithInReplyToID
CreateParamsNoParent(status, resp) ==
    [Status      |-> Segment(fullResponse(status, resp)),
     InReplyToID |-> NoID,
     Visibility  |-> ReplyVisibility(status),
     SpoilerText |-> ReplySpoiler(status)]

\* the StatusCreateParams of one replyToStatus call
CreateParams(status, resp) ==
    [Status      |-> Segment(fullResponse(status, resp)),
     InReplyToID |-> status.ID,
     Visibility  |-> ReplyVisibility(status),
     SpoilerText |-> ReplySpoiler(status)]

\* reply.Payload of a successful StatusCreate: the new status, authored by
\* the bot, carrying the attributes it was created with
StatusCreate(params, id) ==
    MkStatus(id, params.InReplyToID, BotAcct, params.Status, params.Status,
             params.Visibility, params.SpoilerText, << >>)

\* a dispatcher that tries the same segment again when StatusCreate fails
replyToStatusRetries ==
    /\ pc = "reply"
    /\ Len(calls) < MaxPosts
    /\ \E ok \in BOOLEAN :
         LET params == CreateParams(cur, text)
             rest   == remaining(fullResponse(cur, text))
             reply  == IF ok
                       THEN StatusCreate(params, Len(store) + Len(calls) + 1)
                       ELSE NoStatus
         IN /\ calls' = Append(calls, [params |-> params, ok |-> ok,
                                       response |-> text, reply |-> reply])
            /\ IF ok /\ rest # << >>
               THEN /\ cur' = reply
                    /\ text' = rest
                    /\ pc' = "reply"
               ELSE /\ pc' = IF ok THEN "done" ELSE "reply"
                    /\ UNCHANGED <<cur, text>>
    /\ UNCHANGED <<config, web, store, notif, fetches, stack, chatHistory,
                   gpt, response, poll>>

\* One call of replyToStatus: compose, split, create; on success with a
\* non-empty remainder the recursive call replyToStatus(reply.Payload,
\* remaining) is the next step.
replyToStatus ==
    /\ pc = "reply"
    /\ Len(calls) < MaxPosts
    /\ \E ok \in BOOLEAN :
         LET params == CreateParams(cur, text)
             rest   == remaining(fullResponse(cur, text))
             reply  == IF ok
                       THEN StatusCreate(params, Len(store) + Len(calls) + 1)
                       ELSE NoStatus
         IN /\ calls' = Append(calls, [params |-> params, ok |-> ok,
                                       response |-> text, reply |-> reply])
            /\ IF ok /\ rest # << >>
               THEN /\ cur' = reply
                    /\ text' = rest
                    /\ pc' = "reply"
               ELSE /\ pc' = "done"
                    /\ UNCHANGED <<cur, text>>
    /\ UNCHANGED <<config, web, store, notif, fetches, stack, chatHistory,
                   gpt, response, poll>>

(***************************************************************************)
(* buildConversationStack and trimStackToMaxChar.                          *)
(***************************************************************************)
\* gts.Client.Statuses.StatusGet(params.WithID(id)) when it succeeds
StatusGet(id) == store[id]

\* a loop that tests len(stack) <= MaxHistoryCount
RECURSIVE ResolveLoopOffByOne(_, _, _, _)
ResolveLoopOffByOne(stk, current, done, failAt) ==
    IF Len(stk) <= config.MaxHistoryCount /\ current.InReplyToID # NoID
    THEN IF Len(done) + 1 = failAt
         THEN [stack |-> stk, fetches |-> Append(done, "err")]
         ELSE LET payload == store[current.InReplyToID]
              IN ResolveLoopOffByOne(Append(stk, payload), payload,
                                     Append(done, "ok"), failAt)
    ELSE [stack |-> stk, fetches |-> done]

\* The loop of buildConversationStack.  stk is the stack so far, current is
\* currentStatus, done the outcomes of the fetches made so far, and failAt
\* the number of the fetch that fails (0: none does).
RECURSIVE ResolveLoop(_, _, _, _)
ResolveLoop(stk, current, done, failAt) ==
    IF Len(stk) < config.MaxHistoryCount /\ current.InReplyToID # NoID
    THEN IF Len(done) + 1 = failAt
         THEN [stack |-> stk, fetches |-> Append(done, "err")]
         ELSE LET payload == StatusGet(current.InReplyToID)
              IN ResolveLoop(Append(stk, payload), payload,
                             Append(done, "ok"), failAt)
    ELSE [stack |-> stk, fetches |-> done]

\* The loop of trimStackToMaxChar at index i (1-based; Go's i is i - 1)
\* with totalChars = total before stack[i] is added.
RECURSIVE TrimLoop(_, _, _)
TrimLoop(stk, i, total) ==
    IF i < 1 THEN stk
    ELSE LET totalChars == total + Len(stk[i].Content)
         IN IF totalChars > config.MaxHistoryChar
            THEN SubSeq(stk, i + 1, Len(stk))
            ELSE TrimLoop(stk, i - 1, totalChars)

trimStackToMaxChar(stk) == TrimLoop(stk, Len(stk), 0)

\* stack := buildConversationStack(notif.Status)
buildConversationStack ==
    /\ pc = "stack"
    /\ \E failAt \in 0..MaxThread :
         LET r == ResolveLoop(<<notif>>, notif, << >>, failAt)
         IN /\ failAt <= Len(r.fetches)
            /\ fetches' = r.fetches
            /\ stack' = trimStackToMaxChar(r.stack)
    /\ pc' = "history"
    /\ UNCHANGED <<config, web, store, notif, chatHistory, gpt, response,
                   cur, text, calls, poll>>

(***************************************************************************)
(* buildChatHistory, isValidImageAttachment and getBase64Image.            *)
(***************************************************************************)
SetMax(S) == CHOOSE m \in S : \A n \in S : n <= m

\* filepath.Ext: the suffix from the last dot of the last path element
Ext(path) ==
    LET dots == {i \in 1..Len(path) :
                    path[i] = "." /\ \A j \in i..Len(path) : path[j] # "/"}
    IN IF dots = {} THEN << >> ELSE SubSeq(path, SetMax(dots), Len(path))

\* filepath.Base of a path that names a file: its last path element
Base(path) ==
    LET seps == {i \in 1..Len(path) : path[i] = "/"}
    IN IF seps = {} THEN path ELSE SubSeq(path, SetMax(seps) + 1, Len(path))

LowerChar(c) ==
    CASE c = "J" -> "j" [] c = "P" -> "p" [] c = "G" -> "g" [] c = "E" -> "e"
      [] c = "N" -> "n" [] c = "I" -> "i" [] c = "F" -> "f" [] OTHER -> c

\* strings.ToLower
ToLower(s) == [i \in 1..Len(s) |-> LowerChar(s[i])]

validExtensions ==
    {<<".", "j", "p", "g">>, <<".", "j", "p", "e", "g">>, <<".", "p", "n", "g">>}

isValidImageAttachment(url) == ToLower(Ext(url)) \in validExtensions

\* base64.StdEncoding: the alphabet, and the encoding of a byte sequence
B64Alphabet ==
    <<"A", "B", "C", "D", "E", "F", "G", "H", "I", "J", "K", "L", "M", "N", "O",
      "P", "Q", "R", "S", "T", "U", "V", "W", "X", "Y", "Z", "a", "b", "c", "d",
      "e", "f", "g", "h", "i", "j", "k", "l", "m", "n", "o", "p", "q", "r", "s",
      "t", "u", "v", "w", "x", "y", "z", "0", "1", "2", "3", "4", "5", "6", "7",
      "8", "9", "+", "/">>

B64(n) == B64Alphabet[n + 1]

RECURSIVE EncodeToString(_)
EncodeToString(bytes) ==
    IF Len(bytes) = 0 THEN << >>
    ELSE IF Len(bytes) = 1
    THEN <<B64(bytes[1] \div 4), B64((bytes[1] % 4) * 16), "=", "=">>
    ELSE IF Len(bytes) = 2
    THEN <<B64(bytes[1] \div 4),
           B64((bytes[1] % 4) * 16 + bytes[2] \div 16),
           B64((bytes[2] % 16) * 4), "=">>
    ELSE <<B64(bytes[1] \div 4),
           B64((bytes[1] % 4) * 16 + bytes[2] \div 16),
           B64((bytes[2] % 16) * 4 + bytes[3] \div 64),
           B64(bytes[3] % 64)>> \o EncodeToString(SubSeq(bytes, 4, Len(bytes)))

\* getBase64Image(url): "" when http.Get or io.ReadAll fails, else the
\* encoding of the bytes read
getBase64Image(url) ==
    IF web[url].err THEN << >> ELSE EncodeToString(web[url].body)

DataPrefix == <<"data:image/jpeg;base64,">>

NoImage == [nil |-> TRUE, URL |-> << >>]

TextPart(t) == [Type |-> "text", Text |-> t, ImageURL |-> NoImage]

ImagePart(img) ==
    [Type |-> "image_url", Text |-> << >>,
     ImageURL |-> [nil |-> FALSE, URL |-> img]]

\* the notice appended to the first text part for an unsupported attachment
SkippedNotice(url) == <<"\n[notice] attachment ">> \o Base(url) \o <<" skipped">>

\* the loop over status.MediaAttachments, from attachment number j on
RECURSIVE AttachLoop(_, _, _)
AttachLoop(parts, media, j) ==
    IF j > Len(media) THEN parts
    ELSE IF isValidImageAttachment(media[j])
    THEN AttachLoop(Append(parts, ImagePart(DataPrefix \o getBase64Image(media[j]))),
                    media, j + 1)
    ELSE AttachLoop([parts EXCEPT ![1].Text = @ \o SkippedNotice(media[j])],
                    media, j + 1)

\* t := status.Text; if t == "" { t = status.Content }
DisplayText(status) == IF status.Text = << >> THEN status.Content ELSE status.Text

\* config.BotAccountName and config.FediDomain
BotAccountName == <<"b">>

FediDomain == <<"d">>

\* botAcct := fmt.Sprintf("%s@%s", config.BotAccountName, config.FediDomain)
botAcct == BotAccountName \o <<"@">> \o FediDomain

\* the message built from one status with non-empty display text
MessageOf(status) ==
    [Role |-> IF status.Acct = botAcct THEN "assistant" ELSE "user",
     ChatContent |-> AttachLoop(<<TextPart(DisplayText(status))>>,
                                status.MediaAttachments, 1)]

SystemPrompt == <<"p">>

SystemMessage == [Role |-> "system", ChatContent |-> <<TextPart(SystemPrompt)>>]

Reverse(s) == [i \in 1..Len(s) |-> s[Len(s) + 1 - i]]

\* a loop without the skip of entries that have no text
RECURSIVE HistoryLoopKeepsEmpty(_, _, _)
HistoryLoopKeepsEmpty(history, reversedStack, k) ==
    IF k > Len(reversedStack) THEN history
    ELSE HistoryLoopKeepsEmpty(Append(history, MessageOf(reversedStack[k])),
                               reversedStack, k + 1)

\* the loop over reversedStack, from entry number k on
RECURSIVE HistoryLoop(_, _, _)
HistoryLoop(history, reversedStack, k) ==
    IF k > Len(reversedStack) THEN history
    ELSE IF DisplayText(reversedStack[k]) = << >>
    THEN HistoryLoop(history, reversedStack, k + 1)
    ELSE HistoryLoop(Append(history, MessageOf(reversedStack[k])),
                     reversedStack, k + 1)

\* chatHistory := buildChatHistory(stack)
buildChatHistory ==
    /\ pc = "history"
    /\ chatHistory' = HistoryLoop(<<SystemMessage>>, Reverse(stack), 1)
    /\ pc' = "gpt"
    /\ UNCHANGED <<config, web, store, notif, fetches, stack, gpt, response,
                   cur, text, calls, poll>>

(***************************************************************************)
(* callGPT.  A JSON value is a record [t, s, keys, vals]: t its kind, s the *)
(* text of a string, keys and vals the members of an object, vals the      *)
(* elements of an array.  A body that is not JSON has kind "invalid".      *)
(***************************************************************************)
JVal(t, s, keys, vals) == [t |-> t, s |-> s, keys |-> keys, vals |-> vals]

JNil == JVal("nil", << >>, << >>, << >>)

JInvalid == JVal("invalid", << >>, << >>, << >>)

JNum == JVal("num", << >>, << >>, << >>)

JStr(s) == JVal("str", s, << >>, << >>)

JArr(elems) == JVal("arr", << >>, << >>, elems)

JObj(keys, vals) == JVal("obj", << >>, keys, vals)

\* json.Unmarshal(body, &result) into a map[string]interface{}: result
\* stays nil unless the body is a JSON object
Unmarshal(body) == IF body.t = "obj" THEN body ELSE JNil

\* m[key] of a map[string]interface{} (nil when m is nil or has no such key)
Index(m, key) ==
    IF m.t = "obj" /\ \E i \in 1..Len(m.keys) : m.keys[i] = key
    THEN m.vals[CHOOSE i \in 1..Len(m.keys) : m.keys[i] = key]
    ELSE JNil

\* the fixed string callGPT returns on failure ("ERROR: ..."), shortened
ErrorString == <<"E", "R", "R">>

Returned(s) == [panic |-> FALSE, value |-> s]

Panicked == [panic |-> TRUE, value |-> << >>]

\* callGPT after openAI.Do succeeded: the response body decides alone
ParseBody(body) ==
    LET result  == Unmarshal(body)
        choices == Index(result, "choices")
    IN IF choices.t # "arr" \/ Len(choices.vals) = 0
       THEN Returned(ErrorString)
       ELSE IF choices.vals[1].t # "obj"
       THEN Panicked           \* choices[0].(map[string]interface{}) panics
       ELSE LET message == Index(choices.vals[1], "message")
            IN IF message.t # "obj"
               THEN Returned(ErrorString)
               ELSE LET content == Index(message, "content")
                    IN IF content.t # "str"
                       THEN Returned(ErrorString)
                       ELSE Returned(content.s)

\* the outcome of callGPT when the service answers ans
CallResult(ans) ==
    IF ans.transport = "err" THEN Returned(ErrorString) ELSE ParseBody(ans.body)

Completion(s) ==
    JObj(<<"choices">>, <<JArr(<<JObj(<<"message">>,
        <<JObj(<<"content">>, <<JStr(s)>>)>>)>>)>>)

\* bodies that deviate from {choices:[{message:{content: string}}]}
MalformedBodies ==
    {JInvalid, JArr(<< >>), JObj(<< >>, << >>),
     JObj(<<"error">>, <<JStr(<<"e">>)>>),
     JObj(<<"choices">>, <<JStr(<<"c">>)>>),
     JObj(<<"choices">>, <<JArr(<< >>)>>),
     JObj(<<"choices">>, <<JArr(<<JNum>>)>>),
     JObj(<<"choices">>, <<JArr(<<JObj(<< >>, << >>)>>)>>),
     JObj(<<"choices">>, <<JArr(<<JObj(<<"message">>, <<JStr(<<"m">>)>>)>>)>>),
     JObj(<<"choices">>, <<JArr(<<JObj(<<"message">>, <<JObj(<< >>, << >>)>>)>>)>>),
     JObj(<<"choices">>, <<JArr(<<JObj(<<"message">>,
         <<JObj(<<"content">>, <<JNum>>)>>)>>)>>)}

\* texts a completion may carry, the empty one included
CompletionTexts == Strings({"x"}, 0, MaxRespLen)

StatusCodes == {200, 500}

GptAnswers ==
    {[transport |-> "err", code |-> 0, body |-> JNil]}
    \cup [transport : {"ok"}, code : StatusCodes,
          body : MalformedBodies \cup {Completion(s) : s \in CompletionTexts}]

\* response := callGPT(chatHistory), then processNotification's test of it:
\* an empty response ends the mention, any other is handed to
\* replyToStatus(notif.Status, response).
callGPT ==
    /\ pc = "gpt"
    /\ \E ans \in GptAnswers :
         LET r == CallResult(ans)
         IN /\ gpt' = ans
            /\ IF r.panic
               THEN /\ pc' = "crashed"
                    /\ UNCHANGED <<response, cur, text>>
               ELSE /\ response' = r.value
                    /\ IF r.value = << >>
                       THEN /\ pc' = "done"
                            /\ UNCHANGED <<cur, text>>
                       ELSE /\ pc' = "reply"
                            /\ cur' = notif
                            /\ text' = r.value
    /\ UNCHANGED <<config, web, store, notif, fetches, stack, chatHistory,
                   calls, poll>>

(***************************************************************************)
(* Values of the variables a specification does not exercise.              *)
(***************************************************************************)
DefaultConfig ==
    [MaxChar |-> MaxCharBound, MaxHistoryCount |-> MaxCountBound,
     MaxHistoryChar |-> MaxHistoryCharBound]

NoGpt == [transport |-> "none", code |-> 0, body |-> JNil]

\* the poll loop when a specification runs one pipeline stage on its own
NoPoll ==
    [pc |-> "off", cycle |-> 0, inbox |-> << >>, arrived |-> 0,
     notifs |-> << >>, i |-> 0, fetchOK |-> FALSE, clears |-> 0,
     started |-> 0, handed |-> {}, removed |-> {}, answered |-> {},
     cleared |-> {}]

(***************************************************************************)
(* SpecReply: replyToStatus(notif.Status, response) as called by           *)
(* processNotification with a non-empty response, for every author handle, *)
(* visibility, content warning, response text and MaxChar in the bounds.   *)
(***************************************************************************)
Spoilers == {<< >>, <<"s">>}

Responses == Strings({"x", "y"}, 1, MaxRespLen)

InitReply ==
    /\ config \in [MaxChar : 1..MaxCharBound,
                   MaxHistoryCount : {MaxCountBound},
                   MaxHistoryChar : {MaxHistoryCharBound}]
    /\ web = << >>
    /\ \E acct \in Authors, vis \in Visibilities, sp \in Spoilers :
         notif = MkStatus(1, NoID, acct, <<"q">>, <<"q">>, vis, sp, << >>)
    /\ store = <<notif>>
    /\ pc = "reply"
    /\ fetches = << >>
    /\ stack = <<notif>>
    /\ chatHistory = << >>
    /\ gpt = NoGpt
    /\ response \in Responses
    /\ cur = notif
    /\ text = response
    /\ calls = << >>
    /\ poll = NoPoll

NextReply == replyToStatus

SpecReply == InitReply /\ [][NextReply]_vars

(***************************************************************************)
(* SpecThread: buildConversationStack on every thread of at most MaxThread *)
(* statuses, for every MaxHistoryCount and MaxHistoryChar in the bounds.   *)
(* store[1] is the mention's status and store[i + 1] the parent of         *)
(* store[i]; the oldest status replies to nothing.                         *)
(***************************************************************************)
Contents == {Chars(n, "c") : n \in 0..MaxContentLen}

ThreadOf(contents) ==
    [i \in 1..Len(contents) |->
        MkStatus(i, IF i < Len(contents) THEN i + 1 ELSE NoID, <<"u">>,
                 << >>, contents[i], "public", << >>, << >>)]

Threads == {ThreadOf(cs) : cs \in UNION {[1..n -> Contents] : n \in 1..MaxThread}}

InitThread ==
    /\ config \in [MaxChar : {MaxCharBound},
                   MaxHistoryCount : 1..MaxCountBound,
                   MaxHistoryChar : 0..MaxHistoryCharBound]
    /\ web = << >>
    /\ store \in Threads
    /\ notif = store[1]
    /\ pc = "stack"
    /\ fetches = << >>
    /\ stack = << >>
    /\ chatHistory = << >>
    /\ gpt = NoGpt
    /\ response = << >>
    /\ cur = NoStatus
    /\ text = << >>
    /\ calls = << >>
    /\ poll = NoPoll

NextThread == buildConversationStack

SpecThread == InitThread /\ [][NextThread]_vars

(***************************************************************************)
(* SpecTranscript: buildChatHistory on every history of one or two         *)
(* statuses carrying at most MaxMedia attachments between them, for every  *)
(* outcome of fetching each image.                                         *)
(***************************************************************************)
JpgURL == <<"/", "a", ".", "j", "p", "g">>

PngURL == <<"/", "b", ".", "P", "N", "G">>

GifURL == <<"/", "c", ".", "g", "i", "f">>

URLs == {JpgURL, PngURL, GifURL}

\* what http.Get and io.ReadAll yield for a URL: an error, or the bytes
FetchError == [err |-> TRUE, body |-> << >>]

Fetched(bytes) == [err |-> FALSE, body |-> bytes]

Webs ==
    {[u \in URLs |-> IF u = JpgURL THEN a ELSE IF u = PngURL THEN b
                     ELSE Fetched(<<71>>)] :
        a \in {FetchError, Fetched(<<77>>)},
        b \in {FetchError, Fetched(<<77, 97, 110>>)}}

MediaLists(n) == UNION {[1..k -> URLs] : k \in 0..n}

HistoryStatus(id, acct, txt, content, media) ==
    MkStatus(id, NoID, acct, txt, content, "public", << >>, media)

\* a status that replies to its parent
ReplyTo(status, parent) == [status EXCEPT !.InReplyToID = parent]

Displays == {<< >>, <<"t">>} \X {<< >>, <<"c">>}

Histories ==
    {<<HistoryStatus(1, acct, d[1], d[2], m)>> :
        acct \in {<<"u">>, botAcct}, d \in Displays, m \in MediaLists(MaxMedia)}
    \cup
    UNION {{<<ReplyTo(HistoryStatus(1, a1, d1[1], d1[2], m1), 2),
              HistoryStatus(2, a2, d2[1], d2[2], m2)>> :
                m2 \in MediaLists(MaxMedia - Len(m1))} :
            a1 \in {<<"u">>, botAcct}, a2 \in {<<"u">>, botAcct},
            d1 \in Displays, d2 \in Displays, m1 \in MediaLists(MaxMedia)}

InitTranscript ==
    /\ config = DefaultConfig
    /\ web \in Webs
    /\ stack \in Histories
    /\ store = stack
    /\ notif = stack[1]
    /\ pc = "history"
    /\ fetches = << >>
    /\ chatHistory = << >>
    /\ gpt = NoGpt
    /\ response = << >>
    /\ cur = NoStatus
    /\ text = << >>
    /\ calls = << >>
    /\ poll = NoPoll

NextTranscript == buildChatHistory

SpecTranscript == InitTranscript /\ [][NextTranscript]_vars

(***************************************************************************)
(* Spec: processNotification for one mention, from the mention's status to *)
(* the end of its reply chain.                                             *)
(***************************************************************************)
Mentions ==
    {<<HistoryStatus(1, <<"u">>, << >>, c, m)>> :
        c \in {<< >>, <<"c">>}, m \in {<< >>, <<JpgURL>>}}
    \cup
    {<<ReplyTo(HistoryStatus(1, <<"u">>, << >>, c1, << >>), 2),
       HistoryStatus(2, botAcct, << >>, c2, << >>)>> :
        c1 \in {<< >>, <<"c">>}, c2 \in {<< >>, <<"c">>}}

Init ==
    /\ config \in [MaxChar : {MaxCharBound - 1, MaxCharBound},
                   MaxHistoryCount : {1, MaxCountBound},
                   MaxHistoryChar : {0, MaxHistoryCharBound}]
    /\ web \in Webs
    /\ store \in Mentions
    /\ notif = store[1]
    /\ pc = "stack"
    /\ fetches = << >>
    /\ stack = << >>
    /\ chatHistory = << >>
    /\ gpt = NoGpt
    /\ response = << >>
    /\ cur = NoStatus
    /\ text = << >>
    /\ calls = << >>
    /\ poll = NoPoll

Next ==
    \/ buildConversationStack
    \/ buildChatHistory
    \/ callGPT
    \/ replyToStatus

Spec == Init /\ [][Next]_vars

(***************************************************************************)
(* main and processNotifications: the poll loop.  poll.inbox is the        *)
(* notification list held by the server, poll.notifs the payload of the    *)
(* cycle's list fetch and poll.i the position of the range loop in it.     *)
(* poll.pc is "sleep" between two calls of processNotifications, "range"   *)
(* at the head of the loop and "mention" inside processNotification.  The  *)
(* other fields record what has happened: the number of calls started      *)
(* (cycle), whether the last list fetch succeeded (fetchOK), the clear-all *)
(* calls (clears) and processNotification calls (started) of the cycle,    *)
(* the notifications ever handed to processNotification (handed), those    *)
(* removed by clear-all (removed), the pairs of notification and cycle in  *)
(* which replies were posted (answered) and the cycles whose clear-all     *)
(* call succeeded (cleared).                                               *)
(***************************************************************************)
NotificationTypes == {"mention", "favourite"}

Notification(id, type) == [ID |-> id, Type |-> type]

MentionIDs(list) == {list[k].ID : k \in {j \in 1..Len(list) : list[j].Type = "mention"}}

\* a clear-all that succeeds and removes nothing
ClearNotificationsKeeps(inbox) == inbox

\* what a successful clear-all leaves of the server's notification list
ClearNotificationsPayload(inbox) == << >>

\* the status of the mention notification id: a question nobody replied to
MentionStatus(id) == HistoryStatus(id, <<"u">>, << >>, <<"c">>, << >>)

\* a notification reaches the server while the bot runs or sleeps
Arrive ==
    /\ poll.pc \in {"sleep", "range", "mention"}
    /\ poll.arrived < MaxNotifs
    /\ \E type \in NotificationTypes :
         poll' = [poll EXCEPT
                    !.arrived = @ + 1,
                    !.inbox = Append(@, Notification(poll.arrived + 1, type))]
    /\ UNCHANGED <<config, web, store, notif, pc, fetches, stack, chatHistory,
                   gpt, response, cur, text, calls>>

\* main calls processNotifications, which fetches the list
processNotifications ==
    /\ poll.pc = "sleep"
    /\ poll.cycle < MaxCycles
    /\ \E ok \in BOOLEAN :
         poll' = [poll EXCEPT
                    !.cycle = @ + 1,
                    !.fetchOK = ok,
                    !.clears = 0,
                    !.started = 0,
                    !.notifs = IF ok THEN poll.inbox ELSE << >>,
                    !.i = 1,
                    !.pc = IF ok THEN "range" ELSE "sleep"]
    /\ UNCHANGED <<config, web, store, notif, pc, fetches, stack, chatHistory,
                   gpt, response, cur, text, calls>>

\* the range loop passes over a notification that is not a mention
skipNotification ==
    /\ poll.pc = "range"
    /\ poll.i <= Len(poll.notifs)
    /\ poll.notifs[poll.i].Type # "mention"
    /\ poll' = [poll EXCEPT !.i = @ + 1]
    /\ UNCHANGED <<config, web, store, notif, pc, fetches, stack, chatHistory,
                   gpt, response, cur, text, calls>>

\* the range loop calls processNotification(notif)
processNotification ==
    /\ poll.pc = "range"
    /\ poll.i <= Len(poll.notifs)
    /\ poll.notifs[poll.i].Type = "mention"
    /\ poll' = [poll EXCEPT
                  !.pc = "mention",
                  !.started = @ + 1,
                  !.handed = @ \cup {poll.notifs[poll.i].ID}]
    /\ notif' = store[poll.notifs[poll.i].ID]
    /\ pc' = "stack"
    /\ UNCHANGED <<config, web, store, fetches, stack, chatHistory, gpt,
                   response, cur, text, calls>>

\* processNotification returns to the range loop
returnToLoop ==
    /\ poll.pc = "mention"
    /\ pc = "done"
    /\ poll' = [poll EXCEPT
                  !.pc = "range",
                  !.i = @ + 1,
                  !.answered = IF \E k \in 1..Len(calls) : calls[k].ok
                               THEN @ \cup {[ID |-> poll.notifs[poll.i].ID,
                                             cycle |-> poll.cycle]}
                               ELSE @]
    /\ pc' = "idle"
    /\ notif' = NoStatus
    /\ fetches' = << >>
    /\ stack' = << >>
    /\ chatHistory' = << >>
    /\ gpt' = NoGpt
    /\ response' = << >>
    /\ cur' = NoStatus
    /\ text' = << >>
    /\ calls' = << >>
    /\ UNCHANGED <<config, web, store>>

\* the range loop is over: clear-all is called and processNotifications returns
ClearNotifications ==
    /\ poll.pc = "range"
    /\ poll.i > Len(poll.notifs)
    /\ \E ok \in BOOLEAN :
         LET left == IF ok THEN ClearNotificationsPayload(poll.inbox)
                           ELSE poll.inbox
         IN poll' = [poll EXCEPT
                       !.pc = "sleep",
                       !.clears = @ + 1,
                       !.inbox = left,
                       !.removed = @ \cup (MentionIDs(poll.inbox) \ MentionIDs(left)),
                       !.cleared = IF ok THEN @ \cup {poll.cycle} ELSE @]
    /\ UNCHANGED <<config, web, store, notif, pc, fetches, stack, chatHistory,
                   gpt, response, cur, text, calls>>

InitPoll ==
    /\ config = DefaultConfig
    /\ web = << >>
    /\ store = [id \in 1..MaxNotifs |-> MentionStatus(id)]
    /\ notif = NoStatus
    /\ pc = "idle"
    /\ fetches = << >>
    /\ stack = << >>
    /\ chatHistory = << >>
    /\ gpt = NoGpt
    /\ response = << >>
    /\ cur = NoStatus
    /\ text = << >>
    /\ calls = << >>
    /\ poll = [NoPoll EXCEPT !.pc = "sleep"]

NextPoll ==
    \/ Arrive
    \/ processNotifications
    \/ skipNotification
    \/ processNotification
    \/ buildConversationStack
    \/ buildChatHistory
    \/ callGPT
    \/ replyToStatus
    \/ returnToLoop
    \/ ClearNotifications

SpecPoll == InitPoll /\ [][NextPoll]_vars

(***************************************************************************)
(* Views of the resolved thread.                                           *)
(***************************************************************************)
\* the stack buildConversationStack hands to trimStackToMaxChar: the leaf
\* and the ancestors fetched, leaf first
Resolved ==
    SubSeq(store, 1, 1 + Cardinality({i \in 1..Len(fetches) : fetches[i] = "ok"}))

RECURSIVE SumContent(_)
SumContent(stk) ==
    IF stk = << >> THEN 0 ELSE Len(Head(stk).Content) + SumContent(Tail(stk))

InStack(status, stk) == \E i \in 1..Len(stk) : stk[i].ID = status.ID

StackBuilt == pc # "stack"

(***************************************************************************)
(* Views of the replies posted for the mention.                            *)
(***************************************************************************)
\* the calls that created a reply
Posted == SelectSeq(calls, LAMBDA c : c.ok)

AllCreatesOK == \A i \in 1..Len(calls) : calls[i].ok

PostedBodies == [i \in 1..Len(Posted) |-> Posted[i].params.Status]

(***************************************************************************)
(* Properties of reply dispatch (SpecReply).                               *)
(***************************************************************************)
\* the text composed for the mention: "@<author-handle> <response>"
Composed == fullResponse(notif, response)

ChainFinished == pc = "done" /\ calls # << >> /\ AllCreatesOK

\* C1: when every create-reply call succeeded, the bodies posted for the
\* mention, concatenated in posting order and with the "@<author-handle> "
\* prefix stripped once from the front, are the original response text.
C1_SplitLossless ==
    ChainFinished =>
        TrimPrefix(Concat(PostedBodies), mentionAcct(notif) \o <<" ">>) = response

\* C2: every body posted after the first is exactly the next slice (at most
\* MaxChar characters) of the remainder carried forward into that call,
\* with no "@<handle> " put in front of it.
C2_OnlyFirstPrefixed ==
    \A i \in 2..Len(calls) :
        calls[i].params.Status = Take(calls[i].response, config.MaxChar)

\* C3: when the mention's status has content warning W # "", every reply
\* created for it, at every position of the chain, has content warning
\* "re: " + W.
C3_SpoilerFromOriginal ==
    notif.SpoilerText # << >> =>
        \A i \in 1..Len(calls) :
            calls[i].params.SpoilerText = RePrefix \o notif.SpoilerText

\* the visibility transform as the specification states it
ExpectedVisibility(v) ==
    CASE v = "public" -> "unlisted"
      [] v = "private" -> "direct"
      [] v = "mutuals_only" -> "direct"
      [] OTHER -> v

EveryReplyVisibility ==
    \A i \in 1..Len(calls) :
        calls[i].params.Visibility = ExpectedVisibility(notif.Visibility)

C10_SegmentWithinLimit ==
    \A i \in 1..Len(calls) : Len(calls[i].params.Status) <= config.MaxChar

\* a second segment that fills the limit, cut from a longer text
C10_Witness ==
    /\ Len(Posted) >= 2
    /\ Len(Posted[2].params.Status) = config.MaxChar
    /\ Len(fullResponse(Posted[1].reply, Posted[2].response)) > config.MaxChar

(***************************************************************************)
(* Properties of thread resolution (SpecThread).                           *)
(***************************************************************************)
\* C4: the history buildConversationStack returns is never empty and holds
\* the triggering (leaf) status.
C4_LeafRetained ==
    StackBuilt => (stack # << >> /\ InStack(notif, stack))

\* C5: trimming keeps a run of the newest entries: the result is a prefix,
\* starting at the leaf, of the leaf-first stack it was given.
C5_OldestDroppedFirst ==
    StackBuilt => stack = SubSeq(Resolved, 1, Len(stack))

\* C6: the history has at most MaxHistoryCount entries, and its content
\* lengths sum to at most MaxHistoryChar unless the newest entry alone
\* exceeds the budget, and then that entry is retained.
C6_Budgets ==
    StackBuilt =>
        /\ Len(stack) <= config.MaxHistoryCount
        /\ IF Len(notif.Content) > config.MaxHistoryChar
           THEN InStack(notif, stack)
           ELSE SumContent(stack) <= config.MaxHistoryChar

(***************************************************************************)
(* Properties of the completion call (Spec).                               *)
(***************************************************************************)
\* callGPT has returned to processNotification
GptReturned == pc \in {"reply", "done"}

\* C7: whenever the completion service answered with a status other than
\* 200, whatever the body, callGPT returned the fixed error string, and
\* that string is the response handed on to be posted as the reply.
C7_Non200Apology ==
    (GptReturned /\ gpt.transport = "ok" /\ gpt.code # 200) =>
        /\ response = ErrorString
        /\ (calls # << >> => calls[1].response = ErrorString)

(***************************************************************************)
(* Properties of transcript assembly (SpecTranscript).                     *)
(***************************************************************************)
\* the history entries that yield a message, oldest first
Shown == SelectSeq(Reverse(stack), LAMBDA st : DisplayText(st) # << >>)

ImageParts(msg) == SelectSeq(msg.ChatContent, LAMBDA part : part.Type = "image_url")

\* the supported attachments of a status whose fetch succeeded
FetchedImages(st) ==
    {j \in 1..Len(st.MediaAttachments) :
        /\ isValidImageAttachment(st.MediaAttachments[j])
        /\ ~web[st.MediaAttachments[j]].err}

\* C8: a supported image whose fetch failed contributes no content part:
\* each message has as many image parts as its status has supported
\* attachments fetched successfully, and no image part has an empty payload.
C8_FailedImageSkipped ==
    pc = "gpt" =>
        \A k \in 1..Len(Shown) :
            /\ Len(ImageParts(chatHistory[k + 1])) = Cardinality(FetchedImages(Shown[k]))
            /\ \A j \in 1..Len(chatHistory[k + 1].ChatContent) :
                   chatHistory[k + 1].ChatContent[j].Type = "image_url"
                       => chatHistory[k + 1].ChatContent[j].ImageURL.URL # DataPrefix

(***************************************************************************)
(* Further properties of reply dispatch (SpecReply).                       *)
(***************************************************************************)
CeilDiv(a, b) == (a + b - 1) \div b

\* C11: when every create-reply call succeeded, the number of replies
\* posted for the mention is ceil(L / MaxChar), L the length of the
\* composed text "@<author-handle> <response>".
C11_ReplyCount ==
    ChainFinished => Len(Posted) = CeilDiv(Len(Composed), config.MaxChar)

\* C12: once a create-reply call has failed, no further create-reply call
\* is made for the mention: only the last call of a chain can be a failed
\* one, and the chain is over after it.
C12_FailureEndsChain ==
    \A i \in 1..Len(calls) :
        ~calls[i].ok => (i = Len(calls) /\ pc = "done")

\* a chain whose first reply was created and whose second call failed
C12_Witness ==
    /\ Len(calls) = 2
    /\ calls[1].ok
    /\ ~calls[2].ok
    /\ remaining(fullResponse(calls[1].reply, calls[2].response)) # << >>

\* C16: reply dispatch terminates.  Each call is determined by the handle of
\* the status it replies to, the text it is given and MaxChar, so a chain
\* that terminates never gives two of its recursive calls (which all reply
\* to a status of the bot) the same text.
C16_NoRepeatedCall ==
    \A i \in 2..Len(calls) : \A j \in 2..Len(calls) :
        i < j => calls[i].response # calls[j].response

(***************************************************************************)
(* Further properties of thread resolution (SpecThread).                   *)
(***************************************************************************)
\* C14: buildConversationStack makes at most MaxHistoryCount - 1 StatusGet
\* calls, makes none after one that failed, and goes on with the stack it
\* has: the pipeline continues with the trimmed partial stack.
C14_FetchBound ==
    StackBuilt =>
        /\ Len(fetches) <= config.MaxHistoryCount - 1
        /\ \A i \in 1..Len(fetches) : fetches[i] = "err" => i = Len(fetches)
        /\ pc = "history"
        /\ stack = trimStackToMaxChar(Resolved)

\* the second fetch of a three-status thread failed: the leaf and its
\* parent are the stack that is trimmed
C14_Witness ==
    /\ StackBuilt
    /\ Len(store) = 3
    /\ fetches = <<"ok", "err">>
    /\ Len(Resolved) = 2

(***************************************************************************)
(* Further properties of transcript assembly (SpecTranscript).             *)
(***************************************************************************)
\* C15: the transcript's first message has role system and carries the
\* system prompt; after it comes one message for each history entry with
\* non-empty display text, oldest first.
C15_TranscriptShape ==
    pc = "gpt" =>
        /\ chatHistory[1].Role = "system"
        /\ chatHistory[1].ChatContent = <<TextPart(SystemPrompt)>>
        /\ Len(chatHistory) - 1 = Len(Shown)
        /\ \A k \in 1..Len(Shown) :
               /\ chatHistory[k + 1].Role # "system"
               /\ chatHistory[k + 1].ChatContent[1].Type = "text"
               /\ HasPrefix(chatHistory[k + 1].ChatContent[1].Text,
                            DisplayText(Shown[k]))
               /\ (chatHistory[k + 1].Role = "assistant")
                      = (Shown[k].Acct = botAcct)

\* a two-entry history whose newest entry has no text and whose oldest
\* has: one message follows the system message
C15_Witness ==
    /\ pc = "gpt"
    /\ Len(stack) = 2
    /\ DisplayText(stack[1]) = << >>
    /\ DisplayText(stack[2]) # << >>
    /\ stack[2].MediaAttachments = <<PngURL>>
    /\ Len(chatHistory) = 2

(***************************************************************************)
(* Further properties of the completion call (Spec).                       *)
(***************************************************************************)
\* processNotification is past callGPT
GptCalled == pc \notin {"stack", "history", "gpt"}

\* C17: for every body that deviates from the expected shape, callGPT
\* returns the fixed error string and the pipeline is not aborted.
C17_MalformedBodyHandled ==
    (GptCalled /\ gpt.transport = "ok" /\ gpt.body \in MalformedBodies) =>
        (pc # "crashed" /\ response = ErrorString)

\* C18: an empty completion result ends the mention with no create-reply
\* call; a non-empty one leads to at least one create-reply call, the first
\* of which replies to the triggering status.
C18_ReplyIffNonEmpty ==
    /\ (GptReturned /\ response = << >>) => (pc = "done" /\ calls = << >>)
    /\ (GptReturned /\ response # << >>) =>
           \/ (pc = "reply" /\ calls = << >> /\ cur = notif /\ text = response)
           \/ (calls # << >> /\ calls[1].params.InReplyToID = notif.ID
                 /\ calls[1].response = response)

\* the error string was returned for a failed round trip and a reply to the
\* mention was created for it
C18_Witness ==
    /\ gpt.transport = "err"
    /\ response = ErrorString
    /\ calls # << >>
    /\ calls[1].ok
    /\ calls[1].params.InReplyToID = notif.ID


(***************************************************************************)
(* The poll loop.                                                          *)
(***************************************************************************)
\* the current call of processNotifications can take no further step of its own
CycleEnded ==
    /\ poll.cycle > 0
    /\ \/ poll.pc = "sleep"
       \/ pc = "crashed"

\* replies were posted for the notification id in the cycle c
Answered ==
    poll.answered \cup
    (IF poll.pc = "mention" /\ (\E k \in 1..Len(calls) : calls[k].ok)
     THEN {[ID |-> poll.notifs[poll.i].ID, cycle |-> poll.cycle]}
     ELSE {})

\* C13: in a cycle whose list fetch succeeded clear-all is called exactly
\* once, and only after every mention of the cycle finished its pipeline,
\* whatever step of a mention's pipeline failed; when the list fetch fails
\* the cycle ends with nothing processed and nothing cleared.
C13_ClearOncePerCycle ==
    /\ (CycleEnded /\ poll.fetchOK) => poll.clears = 1
    /\ poll.clears > 0 =>
         /\ poll.i > Len(poll.notifs)
         /\ poll.started = Cardinality(MentionIDs(poll.notifs))
    /\ (CycleEnded /\ ~poll.fetchOK) => (poll.clears = 0 /\ poll.started = 0)

\* C19: a mention notification removed by clear-all was handed to
\* processNotification before, whenever it arrived.
C19_NoMentionLost == poll.removed \subseteq poll.handed

\* C20 as stated: no notification has replies posted in two different
\* cycles, also when the clear-all call of the answering cycle fails.
C20_AsStated ==
    \A a \in Answered, b \in Answered : a.ID = b.ID => a.cycle = b.cycle

\* C20: once replies were posted for a mention in a cycle whose clear-all
\* call succeeded, no later cycle posts replies for that mention again.
C20_AnsweredOnceAfterClear ==
    \A a \in Answered, b \in Answered :
        (a.ID = b.ID /\ a.cycle < b.cycle) => a.cycle \notin poll.cleared

\* a mention was answered in a cycle whose clear-all succeeded, and a later
\* cycle fetched a list and posted replies for another mention
C20_Witness ==
    \E a \in Answered, b \in Answered :
        /\ a.cycle \in poll.cleared
        /\ a.cycle < b.cycle
        /\ a.ID # b.ID
=============================================================================
